---- MODULE Spec2Model ----
(***************************************************************************)
(* State-machine model of the multi-session WhatsApp client manager        *)
(* (class ClientManager, src/index.js:318-503) together with the           *)
(* asynchronous lifecycle events of the underlying whatsapp-web.js         *)
(* clients it owns.  Every method of the manager is an action (async       *)
(* methods are split at their awaits); the underlying client is an opaque  *)
(* collaborator that may emit any lifecycle event while it is running.     *)
(***************************************************************************)
EXTENDS Integers, Sequences, FiniteSets, TLC

(* ---------------------------------------------------------------- bounds *)

\* Number of underlying Client objects that can be constructed in one run.
MaxClients == 3

\* Longest recipient string drawn for the normalisation specification.
MaxLen == 6

\* Tokens that callers name, and those of them for which sessions are created
\* (the others stay unknown to the registry).
Tokens == {"T1", "T2"}
SessionTokens == {"T1"}
\* Slots for calls of async manager methods that are in flight at the same time.
Reqs == {"r1", "r2"}
QRs == {"qrA", "qrB"}
Messages == {"hi", "yo"}

Handles == 1..MaxClients
NoClient == 0

\* Characters of recipient strings; strings are sequences of characters.
Chars == {"1", "@", "c", ".", "u", "s"}
Suffix == <<"@", "c", ".", "u", "s">>
Strings == UNION {[1..n -> Chars] : n \in 0..MaxLen}

\* Recipients offered to sendText / sendImage in the session specification:
\* a bare identifier, one ending in the suffix, one with the suffix inside.
Numbers == {<<"1">>, <<"1">> \o Suffix, Suffix \o <<"1">>}

Absent == "absent"
NoQR == "noqr"
Statuses == {"initializing", "authenticated", "logged_out", "auth_failure"}

VARIABLES
  clients,   \* this.clients : token -> Client handle (NoClient = no entry)
  qrCodes,   \* this.qrCodes : token -> latest QR (NoQR = no entry)
  statuses,  \* this.statuses: token -> status (Absent = no entry)
  authDir,   \* whether the directory whatsapp_auth/<token> exists on disk
  cstate,    \* underlying client: "unborn" | "live" | "closed"
  ctoken,    \* token captured by the closures of a client's event handlers
  req,       \* calls of async manager methods suspended at an await
  last,      \* what the last step did: method outcome, call on a client
  nrm,       \* recipient normalisation applied to a drawn string
  qrFrom     \* the client whose 'qr' handler stored the token's QR code

vars == <<clients, qrCodes, statuses, authDir, cstate, ctoken, req, last, nrm, qrFrom>>

registry == <<clients, qrCodes, statuses>>

\* The last step: the manager method it belongs to (kind, token), the outcome
\* if the method settled in it ("pending" if it reached an await), and the
\* call it made on an underlying client: the method and, for sendMessage, the
\* chat id and content passed, with the number and message arguments of the
\* manager method they were made from; for an endpoint, the QR code it
\* responded with.  Steps of the underlying clients (events) leave NoLast.
NoLast == [kind |-> "none", token |-> "none", result |-> "none",
           client |-> NoClient, method |-> "none", number |-> <<>>,
           message |-> "none", chatId |-> <<>>, content |-> "none", qr |-> NoQR,
           sessions |-> {}]

Outcome(kind, t, result) ==
  [NoLast EXCEPT !.kind = kind, !.token = t, !.result = result]

\* A suspended call of a manager method: client and number are the locals the
\* method still uses after the await.
IdleReq == [kind |-> "none", token |-> "none", pc |-> "idle", client |-> NoClient,
            number |-> <<>>, attempts |-> 0]

NrmIdle == [x |-> <<>>, y |-> <<>>, z |-> <<>>, pc |-> "off"]

\* A new suspended call takes the first free slot.
FreeSlot(r) ==
  /\ req[r].pc = "idle"
  /\ r = "r2" => req["r1"].pc # "idle"

(* ------------------------------------------------------- pure functions *)

\* String.prototype.includes
Includes(s, sub) ==
  \E i \in 0..(Len(s) - Len(sub)) : SubSeq(s, i + 1, i + Len(sub)) = sub

EndsWith(s, sub) ==
  /\ Len(s) >= Len(sub)
  /\ SubSeq(s, Len(s) - Len(sub) + 1, Len(s)) = sub

ChatIdAlwaysAppend(number) == number \o Suffix

ChatIdNeverAppend(number) == number

\* const chatId = number.includes('@c.us') ? number : `${number}@c.us`;
ChatId(number) == IF Includes(number, Suffix) THEN number ELSE number \o Suffix

getQRCodeNone(t) == NoQR

\* getQRCode(token): this.qrCodes.get(token) || null
getQRCode(t) == qrCodes[t]

getStatusUnknown(t) == "unknown"

\* getStatus(token): this.statuses.get(token) || 'unknown'
getStatus(t) == IF statuses[t] = Absent THEN "unknown" ELSE statuses[t]

\* listSessions(): Array.from(this.clients.keys())
listSessions == {t \in Tokens : clients[t] # NoClient}

\* Handle of the next Client object to be constructed.
NextHandle == 1 + Cardinality({c \in Handles : cstate[c] # "unborn"})

(* ------------------------------------------------------------------ Init *)

Init ==
  /\ clients = [t \in Tokens |-> NoClient]
  /\ qrCodes = [t \in Tokens |-> NoQR]
  /\ statuses = [t \in Tokens |-> Absent]
  /\ authDir = [t \in Tokens |-> FALSE]
  /\ cstate = [c \in Handles |-> "unborn"]
  /\ ctoken = [c \in Handles |-> "none"]
  /\ req = [r \in Reqs |-> IdleReq]
  /\ last = NoLast
  /\ nrm = NrmIdle
  /\ qrFrom = [t \in Tokens |-> NoClient]

(* ------------------------------------------------------ initializeClient *)

InitializeClientNoGuard(t) == FALSE

\* if (this.clients.has(token)) throw new Error('Client with this token already exists.')
InitializeClientThrows(t) == clients[t] # NoClient

\* Status stored with a new client.
InitialStatus == "initializing"

\* initializeClient(token): synchronous, so one step.  Constructs the client,
\* registers its handlers (closures over token), stores it with status
\* 'initializing' and starts it; LocalAuth creates the credential directory
\* of the token if there is none.  kind is the caller the step is recorded
\* for, ok and err what the caller makes of the return and of the throw.
InitializeClientFrom(kind, t, ok, err) ==
  IF InitializeClientThrows(t)
  THEN /\ last' = Outcome(kind, t, err)
       /\ UNCHANGED <<clients, qrCodes, statuses, authDir, cstate, ctoken>>
  ELSE /\ NextHandle \in Handles
       /\ LET c == NextHandle IN
          /\ clients' = [clients EXCEPT ![t] = c]
          /\ statuses' = [statuses EXCEPT ![t] = InitialStatus]
          /\ cstate' = [cstate EXCEPT ![c] = "live"]
          /\ ctoken' = [ctoken EXCEPT ![c] = t]
          /\ authDir' = [authDir EXCEPT ![t] = TRUE]
          /\ last' = [Outcome(kind, t, ok)
                        EXCEPT !.client = c, !.method = "initialize"]
       /\ UNCHANGED qrCodes

InitializeClient(t) ==
  /\ InitializeClientFrom("initializeClient", t, "ok", "AlreadyExists")
  /\ UNCHANGED <<req, nrm, qrFrom>>

(* ------------------------------------------- underlying client's events *)

QrStoredDropped(q) == NoQR

QrStored(q) == q

\* client.on('qr', ...): this.qrCodes.set(token, qr)
OnQr(c, q) ==
  /\ cstate[c] = "live"
  /\ qrCodes' = [qrCodes EXCEPT ![ctoken[c]] = QrStored(q)]
  /\ qrFrom' = [qrFrom EXCEPT ![ctoken[c]] = c]
  /\ last' = NoLast
  /\ UNCHANGED <<clients, statuses, authDir, cstate, ctoken, req, nrm>>

\* The status-changing handlers: the status each stores, and whether it also
\* deletes the token's QR code.
SetStatus(c, s, clearQr) ==
  /\ cstate[c] = "live"
  /\ statuses' = [statuses EXCEPT ![ctoken[c]] = s]
  /\ qrCodes' = IF clearQr THEN [qrCodes EXCEPT ![ctoken[c]] = NoQR] ELSE qrCodes
  /\ qrFrom' = IF clearQr THEN [qrFrom EXCEPT ![ctoken[c]] = NoClient] ELSE qrFrom
  /\ last' = NoLast
  /\ UNCHANGED <<clients, authDir, cstate, ctoken, req, nrm>>

\* client.on('ready', ...)
OnReady(c) ==
  /\ SetStatus(c, "authenticated", TRUE)

\* client.on('auth_failure', ...)
OnAuthFailure(c) ==
  /\ SetStatus(c, "auth_failure", TRUE)

\* client.on('disconnected', ...): the QR code is left as it is
OnDisconnected(c) ==
  /\ SetStatus(c, "logged_out", FALSE)

(* ------------------------------------------------- sendText / sendImage *)

SendNotFoundNever(t) == FALSE

\* if (!client) throw new Error('Client not found.')
SendNotFound(t) == clients[t] = NoClient

SendAllowedAnyStatus(t) == TRUE

\* if (this.getStatus(token) !== 'authenticated') throw ...
SendAllowed(t) == getStatus(t) = "authenticated"

MessageDropped(message) == "none"

\* The content sendText passes for its message argument.
TextContent(message) == message

\* await client.sendMessage(chatId, content)
SendMessageCall(kind, t, c, number, message, content) ==
  [kind |-> kind, token |-> t, result |-> "pending", client |-> c,
   method |-> "sendMessage", number |-> number, message |-> message,
   chatId |-> ChatId(number), content |-> content]

SendTextUnawaited(r, t, number, message) ==
  /\ last' = Outcome("sendText", t, IF SendNotFound(t) THEN "NotFound"
                                    ELSE IF ~SendAllowed(t) THEN "NotAuthenticated"
                                    ELSE "ok")
  /\ UNCHANGED <<clients, qrCodes, statuses, authDir, cstate, ctoken, req, nrm, qrFrom>>

\* sendText up to its await: the checks and the call of client.sendMessage.
SendText(r, t, number, message) ==
  /\ IF SendNotFound(t)
     THEN /\ last' = Outcome("sendText", t, "NotFound")
          /\ req' = req
     ELSE IF ~SendAllowed(t)
     THEN /\ last' = Outcome("sendText", t, "NotAuthenticated")
          /\ req' = req
     ELSE /\ FreeSlot(r)
          /\ req' = [req EXCEPT ![r] =
                      [IdleReq EXCEPT !.kind = "sendText", !.token = t,
                                      !.pc = "await_send"]]
          /\ last' = SendMessageCall("sendText", t, clients[t], number, message,
                                     TextContent(message))
  /\ UNCHANGED <<clients, qrCodes, statuses, authDir, cstate, ctoken, nrm, qrFrom>>

\* sendImage up to its first await (fetchImageFromUrl).
SendImage(r, t, number) ==
  /\ IF SendNotFound(t)
     THEN /\ last' = Outcome("sendImage", t, "NotFound")
          /\ req' = req
     ELSE IF ~SendAllowed(t)
     THEN /\ last' = Outcome("sendImage", t, "NotAuthenticated")
          /\ req' = req
     ELSE /\ FreeSlot(r)
          /\ req' = [req EXCEPT ![r] =
                      [IdleReq EXCEPT !.kind = "sendImage", !.token = t,
                                      !.pc = "await_fetch", !.client = clients[t],
                                      !.number = number]]
          /\ last' = Outcome("sendImage", t, "pending")
  /\ UNCHANGED <<clients, qrCodes, statuses, authDir, cstate, ctoken, nrm, qrFrom>>

\* fetchImageFromUrl settles: it throws, or sendImage calls client.sendMessage
\* on the client it captured before the await.
FetchSettle(r, ok) ==
  /\ req[r].pc = "await_fetch"
  /\ IF ok
     THEN /\ req' = [req EXCEPT ![r].pc = "await_send", ![r].client = NoClient,
                                 ![r].number = <<>>]
          /\ last' = SendMessageCall("sendImage", req[r].token, req[r].client,
                                     req[r].number, "none", "media")
     ELSE /\ req' = [req EXCEPT ![r] = IdleReq]
          /\ last' = Outcome("sendImage", req[r].token, "FetchFailed")
  /\ UNCHANGED <<clients, qrCodes, statuses, authDir, cstate, ctoken, nrm, qrFrom>>

\* client.sendMessage settles: acknowledged, or its error propagates.
SendSettle(r, ok) ==
  /\ req[r].pc = "await_send"
  /\ req' = [req EXCEPT ![r] = IdleReq]
  /\ last' = Outcome(req[r].kind, req[r].token, IF ok THEN "ok" ELSE "DeliveryFailed")
  /\ UNCHANGED <<clients, qrCodes, statuses, authDir, cstate, ctoken, nrm, qrFrom>>

(* --------------------------------------------------------- removeSession *)

\* if (!client) throw new Error('Client not found.')
RemoveNotFound(t) == clients[t] = NoClient

\* removeSession up to its await: the lookup and the call of client.destroy().
RemoveStart(r, t) ==
  /\ IF RemoveNotFound(t)
     THEN /\ last' = Outcome("removeSession", t, "NotFound")
          /\ req' = req
     ELSE /\ FreeSlot(r)
          /\ req' = [req EXCEPT ![r] =
                      [IdleReq EXCEPT !.kind = "removeSession", !.token = t,
                                      !.pc = "await_destroy", !.client = clients[t]]]
          /\ last' = [Outcome("removeSession", t, "pending")
                        EXCEPT !.client = clients[t], !.method = "destroy"]
  /\ UNCHANGED <<clients, qrCodes, statuses, authDir, cstate, ctoken, nrm, qrFrom>>

QrCodesAfterRemoveKept(t) == qrCodes

ClientsAfterRemoveAll(t) == [x \in Tokens |-> NoClient]

ClientsAfterRemoveKept(t) == clients

\* this.clients.delete(token); this.qrCodes.delete(token); this.statuses.delete(token)
ClientsAfterRemove(t) == [clients EXCEPT ![t] = NoClient]
QrCodesAfterRemove(t) == [qrCodes EXCEPT ![t] = NoQR]
StatusesAfterRemove(t) == [statuses EXCEPT ![t] = Absent]

\* if (fs.existsSync(authDir)) { try { fs.rmSync(...) } catch { log } }
AuthDirAfterRemove(t, rmOk) ==
  [authDir EXCEPT ![t] = IF @ /\ rmOk THEN FALSE ELSE @]

DestroyErrorThrown == FALSE

\* try { await client.destroy(); } catch (err) { console.error(...) }
DestroyErrorCaught == TRUE

\* try { fs.rmSync(authDir, ...) } catch (err) { console.error(...) }
RmErrorCaught == TRUE

\* The awaited removeSession settles.  A direct call ends with its outcome;
\* GET /qr answers 500 when it threw (src/index.js:131-137) and otherwise goes
\* on to initializeClient; POST /sessions logs what it threw and goes on to
\* initializeClient either way (src/index.js:77-82).  The continuation of an
\* endpoint is queued behind the await (pc "removed").
RemoveSettled(r, thrown) ==
  LET k == req[r].kind
      t == req[r].token IN
  IF k = "removeSession"
  THEN /\ last' = Outcome(k, t, IF thrown THEN "TeardownFailed" ELSE "ok")
       /\ req' = [req EXCEPT ![r] = IdleReq]
  ELSE IF k = "GET /qr" /\ thrown
  THEN /\ last' = Outcome(k, t, "ReinitFailed")
       /\ req' = [req EXCEPT ![r] = IdleReq]
  ELSE /\ last' = Outcome(k, t, "pending")
       /\ req' = [req EXCEPT ![r].pc = "removed"]

\* client.destroy() settles (resolved: the client is closed; rejected: the
\* client is whatever it was, for instance still starting its browser, and
\* goes on emitting events), then removeSession deletes the three map
\* entries and removes the credential directory, whose removal may throw.
\* Both errors are caught and logged; an error that were not caught would
\* end the method there.
RemoveFinish(r, destroyOk, rmOk) ==
  /\ req[r].pc = "await_destroy"
  /\ LET t == req[r].token
         c == req[r].client IN
     /\ cstate' = [cstate EXCEPT ![c] = IF destroyOk THEN "closed" ELSE @]
     /\ IF ~destroyOk /\ ~DestroyErrorCaught
        THEN /\ RemoveSettled(r, TRUE)
             /\ UNCHANGED <<clients, qrCodes, statuses, authDir, qrFrom>>
        ELSE /\ clients' = ClientsAfterRemove(t)
             /\ qrCodes' = QrCodesAfterRemove(t)
             /\ qrFrom' = [qrFrom EXCEPT ![t] = IF qrCodes'[t] = NoQR THEN NoClient ELSE @]
             /\ statuses' = StatusesAfterRemove(t)
             /\ authDir' = AuthDirAfterRemove(t, rmOk)
             /\ RemoveSettled(r, authDir[t] /\ ~rmOk /\ ~RmErrorCaught)
  /\ UNCHANGED <<ctoken, nrm>>

(* -------------------------------------------------------- HTTP endpoints *)

\* const maxAttempts = 10
MaxAttempts == 10

\* Endpoint calls that will construct a client when their awaited
\* removeSession has settled; a client is constructed only while the handles
\* of the model suffice for them too.
Reinits == {r \in Reqs : req[r].kind \in {"GET /qr", "POST /sessions"}
                         /\ req[r].pc \in {"await_destroy", "removed"}}

HandleLeft == MaxClients - (NextHandle - 1) > Cardinality(Reinits)

\* No continuation of an awaited removeSession is queued: the event loop is
\* free to run a timer, an event of a client or a new request.
Macrotask == \A r \in Reqs : req[r].pc # "removed"

QrAlreadyAuthenticatedNever(t) == FALSE

\* if (status === 'authenticated') return res.status(400)...
QrAlreadyAuthenticated(t) == getStatus(t) = "authenticated"

\* Status for which an endpoint removes and re-creates the session.
NeedsReinit(t) == getStatus(t) \in {"logged_out", "auth_failure"}

\* The endpoint calls removeSession(token), which finds the client and awaits
\* client.destroy().
EndpointRemove(kind, r, t) ==
  /\ FreeSlot(r)
  /\ HandleLeft
  /\ req' = [req EXCEPT ![r] =
              [IdleReq EXCEPT !.kind = kind, !.token = t,
                              !.pc = "await_destroy", !.client = clients[t]]]
  /\ last' = [Outcome(kind, t, "pending")
                EXCEPT !.client = clients[t], !.method = "destroy"]

\* let qr = getQRCode(token); while (!qr && attempts < maxAttempts) { await ... }
\* entered with attempts = 0: the response if a QR code is stored, the first
\* wait otherwise.
QrWait(r, t, qr) ==
  IF qr # NoQR
  THEN /\ last' = [Outcome("GET /qr", t, "qr") EXCEPT !.qr = qr]
       /\ req' = req
  ELSE /\ last' = Outcome("GET /qr", t, "pending")
       /\ req' = [req EXCEPT ![r] =
                   [IdleReq EXCEPT !.kind = "GET /qr", !.token = t, !.pc = "poll"]]

\* GET /qr/:token up to its first await.
GetQrStart(r, t) ==
  /\ IF clients[t] = NoClient
     THEN /\ last' = Outcome("GET /qr", t, "NotFound")
          /\ req' = req
     ELSE IF QrAlreadyAuthenticated(t)
     THEN /\ last' = Outcome("GET /qr", t, "AlreadyAuthenticated")
          /\ req' = req
     ELSE IF NeedsReinit(t)
     THEN EndpointRemove("GET /qr", r, t)
     ELSE /\ getQRCode(t) = NoQR => FreeSlot(r)
          /\ QrWait(r, t, getQRCode(t))
  /\ UNCHANGED <<clients, qrCodes, statuses, authDir, cstate, ctoken, nrm, qrFrom>>

\* GET /qr after its removeSession returned: initializeClient(token), whose
\* throw is answered with 500, then the wait for the QR code, which begins
\* with a timer: removeSession deleted the QR code in the same turn of the
\* event loop.  The record keeps the client that was removed.
GetQrReinit(r) ==
  /\ req[r].pc = "removed"
  /\ req[r].kind = "GET /qr"
  /\ LET t == req[r].token IN
     /\ InitializeClientFrom("GET /qr", t, "pending", "ReinitFailed")
     /\ IF InitializeClientThrows(t)
        THEN req' = [req EXCEPT ![r] = IdleReq]
        ELSE req' = [req EXCEPT ![r].pc = "poll"]
  /\ UNCHANGED <<nrm, qrFrom>>

QrLoopUnbounded(qr, attempts) == qr = NoQR

\* while (!qr && attempts < maxAttempts)
QrLoopContinues(qr, attempts) == qr = NoQR /\ attempts < MaxAttempts

\* One round of the loop: the timer fires, qr = getQRCode(token), attempts++,
\* and the loop condition is evaluated again.
GetQrPoll(r) ==
  /\ req[r].pc = "poll"
  /\ LET t == req[r].token
         qr == getQRCode(t)
         attempts == req[r].attempts + 1 IN
     IF QrLoopContinues(qr, attempts)
     THEN /\ req' = [req EXCEPT ![r].attempts = attempts]
          /\ last' = Outcome("GET /qr", t, "pending")
     ELSE /\ req' = [req EXCEPT ![r] = IdleReq]
          /\ last' = IF qr # NoQR
                     THEN [Outcome("GET /qr", t, "qr") EXCEPT !.qr = qr]
                     ELSE Outcome("GET /qr", t, "ArtifactTimeout")
  /\ UNCHANGED <<clients, qrCodes, statuses, authDir, cstate, ctoken, nrm, qrFrom>>

\* POST /sessions up to its first await, for a valid number.
PostSessionsStart(r, t) ==
  /\ IF clients[t] # NoClient /\ getStatus(t) = "initializing"
     THEN /\ last' = Outcome("POST /sessions", t, "AlreadyInitializing")
          /\ UNCHANGED <<clients, qrCodes, statuses, authDir, cstate, ctoken, req>>
     ELSE IF clients[t] # NoClient /\ getStatus(t) = "authenticated"
     THEN /\ last' = Outcome("POST /sessions", t, "AlreadyAuthenticated")
          /\ UNCHANGED <<clients, qrCodes, statuses, authDir, cstate, ctoken, req>>
     ELSE IF clients[t] # NoClient /\ NeedsReinit(t)
     THEN /\ EndpointRemove("POST /sessions", r, t)
          /\ UNCHANGED <<clients, qrCodes, statuses, authDir, cstate, ctoken>>
     ELSE /\ HandleLeft
          /\ InitializeClientFrom("POST /sessions", t, "ok", "AlreadyExists")
          /\ req' = req
  /\ UNCHANGED <<nrm, qrFrom>>

\* POST /sessions after its removeSession settled: initializeClient(token);
\* 200 if it returns, 500 with the message of the error if it throws.
PostSessionsReinit(r) ==
  /\ req[r].pc = "removed"
  /\ req[r].kind = "POST /sessions"
  /\ InitializeClientFrom("POST /sessions", req[r].token, "ok", "AlreadyExists")
  /\ req' = [req EXCEPT ![r] = IdleReq]
  /\ UNCHANGED <<nrm, qrFrom>>

\* GET /status/:token
GetStatus(t) ==
  /\ last' = Outcome("GET /status", t,
                     IF clients[t] = NoClient THEN "NotFound" ELSE getStatus(t))
  /\ UNCHANGED <<clients, qrCodes, statuses, authDir, cstate, ctoken, req, nrm, qrFrom>>

\* The settling of a destroy() that may run before a queued continuation: one
\* of the same client, whose destroy() calls settle together.
SettlesWith(r) ==
  \A o \in Reqs : req[o].pc = "removed" => req[o].client = req[r].client

NextHttp ==
  \/ Macrotask /\ \E r \in Reqs, t \in SessionTokens : PostSessionsStart(r, t)
  \/ Macrotask /\ \E r \in Reqs, t \in SessionTokens : GetQrStart(r, t)
  \/ Macrotask /\ \E r \in Reqs : GetQrPoll(r)
  \/ Macrotask /\ \E c \in Handles, q \in QRs : OnQr(c, q)
  \/ Macrotask /\ \E c \in Handles : OnReady(c)
  \/ Macrotask /\ \E c \in Handles : OnAuthFailure(c)
  \/ Macrotask /\ \E c \in Handles : OnDisconnected(c)
  \/ Macrotask /\ \E r \in Reqs, t \in SessionTokens : RemoveStart(r, t)
  \/ \E r \in Reqs, dOk \in BOOLEAN, rmOk \in BOOLEAN :
       SettlesWith(r) /\ RemoveFinish(r, dOk, rmOk)
  \/ \E r \in Reqs : GetQrReinit(r)
  \/ \E r \in Reqs : PostSessionsReinit(r)

SpecHttp == Init /\ [][NextHttp]_vars

(* ------------------------------------------------------------ POST /pair *)

\* POST /pair (src/ClientManager.js:226-269) is written against a manager
\* that keeps a pairing code per token and emits 'code'; that manager is not
\* among the sources.  Following the design, the pairing code is the
\* session's authentication artifact, stored where the QR code is.
Codes == {"code1"}

getPairingCode(t) == qrCodes[t]

\* The client of a session produces its pairing code: the manager stores it
\* and emits 'code' (token, code), and every onCode listener registered for
\* the token removes itself and resolves its request's promise, which
\* answers with the code.
OnCode(c, code) ==
  /\ cstate[c] = "live"
  /\ LET t == ctoken[c]
         released == {r \in Reqs : req[r].pc = "await_code" /\ req[r].token = t} IN
     /\ qrCodes' = [qrCodes EXCEPT ![t] = code]
     /\ qrFrom' = [qrFrom EXCEPT ![t] = c]
     /\ req' = [r \in Reqs |-> IF r \in released THEN IdleReq ELSE req[r]]
     /\ last' = IF released = {} THEN NoLast
                ELSE [Outcome("POST /pair", t, "code") EXCEPT !.qr = code]
  /\ UNCHANGED <<clients, statuses, authDir, cstate, ctoken, nrm>>

\* POST /pair for a valid number and token: the stored code if the session
\* has one; otherwise initializeClient(token, { phoneNumber }), whose throw
\* is answered with 500, and the await of a promise that only the 'code'
\* listener resolves.
PairStart(r, t) ==
  /\ IF clients[t] # NoClient /\ getPairingCode(t) # NoQR
     THEN /\ last' = [Outcome("POST /pair", t, "code") EXCEPT !.qr = getPairingCode(t)]
          /\ UNCHANGED <<clients, qrCodes, statuses, authDir, cstate, ctoken, req>>
     ELSE /\ InitializeClientFrom("POST /pair", t, "pending", "AlreadyExists")
          /\ IF InitializeClientThrows(t)
             THEN req' = req
             ELSE /\ FreeSlot(r)
                  /\ req' = [req EXCEPT ![r] =
                              [IdleReq EXCEPT !.kind = "POST /pair", !.token = t,
                                              !.pc = "await_code"]]
  /\ UNCHANGED <<nrm, qrFrom>>

NextPair ==
  \/ \E r \in Reqs, t \in SessionTokens : PairStart(r, t)
  \/ \E c \in Handles, code \in Codes : OnCode(c, code)
  \/ \E c \in Handles : OnReady(c)
  \/ \E c \in Handles : OnAuthFailure(c)
  \/ \E c \in Handles : OnDisconnected(c)
  \/ \E r \in Reqs, t \in SessionTokens : RemoveStart(r, t)
  \/ \E r \in Reqs, dOk \in BOOLEAN, rmOk \in BOOLEAN : RemoveFinish(r, dOk, rmOk)

SpecPair == Init /\ [][NextPair]_vars

\* What the program itself owes: an awaited client.destroy() settles.  A
\* client owes no event.
FairSpecPair ==
  SpecPair /\ \A r \in Reqs :
                WF_vars(\E dOk \in BOOLEAN, rmOk \in BOOLEAN : RemoveFinish(r, dOk, rmOk))

(* ------------------------- initializeClient of src/ClientManager.js *)

\* initializeClient as src/ClientManager.js:20-84 (and src/unnamed/part_000:
\* 18-65) has it, up to and including client.initialize(): the guard, the
\* construction of the client, the registration of its handlers and the
\* start of the client.  The function has not returned: the stores follow.
InitializeFirst(r, t) ==
  /\ IF InitializeClientThrows(t)
     THEN /\ last' = Outcome("initializeClient", t, "AlreadyExists")
          /\ UNCHANGED <<authDir, cstate, ctoken, req>>
     ELSE /\ NextHandle \in Handles
          /\ FreeSlot(r)
          /\ LET c == NextHandle IN
             /\ cstate' = [cstate EXCEPT ![c] = "live"]
             /\ ctoken' = [ctoken EXCEPT ![c] = t]
             /\ authDir' = [authDir EXCEPT ![t] = TRUE]
             /\ req' = [req EXCEPT ![r] =
                         [IdleReq EXCEPT !.kind = "initializeClient", !.token = t,
                                         !.pc = "store", !.client = c]]
             /\ last' = [Outcome("initializeClient", t, "pending")
                           EXCEPT !.client = c, !.method = "initialize"]
  /\ UNCHANGED <<clients, qrCodes, statuses, nrm, qrFrom>>

\* this.clients.set(token, client); this.statuses.set(token, 'initializing')
StoreAfterInitialize(r) ==
  /\ req[r].pc = "store"
  /\ clients' = [clients EXCEPT ![req[r].token] = req[r].client]
  /\ statuses' = [statuses EXCEPT ![req[r].token] = InitialStatus]
  /\ req' = [req EXCEPT ![r] = IdleReq]
  /\ last' = Outcome("initializeClient", req[r].token, "ok")
  /\ UNCHANGED <<qrCodes, authDir, cstate, ctoken, nrm, qrFrom>>

\* initializeClient is between its two halves.  It is synchronous and the
\* client emits nothing from within the call of initialize(), so nothing
\* else runs then.
Storing == \E r \in Reqs : req[r].pc = "store"

\* The manager of src/ClientManager.js:1-177, whose handlers and
\* removeSession are those of src/index.js, with GET /status.
NextInitFirst ==
  \/ ~Storing /\ \E r \in Reqs, t \in SessionTokens : InitializeFirst(r, t)
  \/ \E r \in Reqs : StoreAfterInitialize(r)
  \/ ~Storing /\ \E t \in Tokens : GetStatus(t)
  \/ ~Storing /\ \E c \in Handles, q \in QRs : OnQr(c, q)
  \/ ~Storing /\ \E c \in Handles : OnReady(c)
  \/ ~Storing /\ \E c \in Handles : OnAuthFailure(c)
  \/ ~Storing /\ \E c \in Handles : OnDisconnected(c)
  \/ ~Storing /\ \E r \in Reqs, t \in Tokens : RemoveStart(r, t)
  \/ ~Storing /\ \E r \in Reqs, dOk \in BOOLEAN, rmOk \in BOOLEAN : RemoveFinish(r, dOk, rmOk)

SpecInitFirst == Init /\ [][NextInitFirst]_vars

(* ------------------------------- removeSession of src/unnamed/part_000 *)

\* removeSession up to its await: the lookup and the call of client.logout().
LegacyRemoveStart(r, t) ==
  /\ IF RemoveNotFound(t)
     THEN /\ last' = Outcome("removeSession", t, "NotFound")
          /\ req' = req
     ELSE /\ FreeSlot(r)
          /\ req' = [req EXCEPT ![r] =
                      [IdleReq EXCEPT !.kind = "removeSession", !.token = t,
                                      !.pc = "await_logout", !.client = clients[t]]]
          /\ last' = [Outcome("removeSession", t, "pending")
                        EXCEPT !.client = clients[t], !.method = "logout"]
  /\ UNCHANGED <<clients, qrCodes, statuses, authDir, cstate, ctoken, nrm, qrFrom>>

\* await client.logout() settles.  Rejected, the method throws there and
\* nothing is deleted.  Resolved, client.destroy() is called and not awaited,
\* the three entries are deleted, and fs.rmdirSync removes the credential
\* directory or throws out of the method.  The method has returned; the
\* destroy() it started is still running (pc "destroying").
LegacyRemoveFinish(r, logoutOk, rmOk) ==
  /\ req[r].pc = "await_logout"
  /\ LET t == req[r].token
         c == req[r].client IN
     IF ~logoutOk
     THEN /\ last' = Outcome("removeSession", t, "TeardownFailed")
          /\ req' = [req EXCEPT ![r] = IdleReq]
          /\ UNCHANGED <<clients, qrCodes, statuses, authDir, qrFrom>>
     ELSE /\ req' = [req EXCEPT ![r] =
                       [IdleReq EXCEPT !.kind = "destroy", !.token = t,
                                       !.pc = "destroying", !.client = c]]
          /\ clients' = ClientsAfterRemove(t)
          /\ qrCodes' = QrCodesAfterRemove(t)
          /\ qrFrom' = [qrFrom EXCEPT ![t] = NoClient]
          /\ statuses' = StatusesAfterRemove(t)
          /\ authDir' = AuthDirAfterRemove(t, rmOk)
          /\ last' = [Outcome("removeSession", t,
                              IF authDir[t] /\ ~rmOk THEN "TeardownFailed" ELSE "ok")
                        EXCEPT !.client = c, !.method = "destroy"]
  /\ UNCHANGED <<cstate, ctoken, nrm>>

\* The destroy() that nothing awaits settles: the client is closed, or it
\* is not and the rejection is handled by nobody.
LegacyDestroySettle(r, destroyOk) ==
  /\ req[r].pc = "destroying"
  /\ cstate' = [cstate EXCEPT ![req[r].client] = IF destroyOk THEN "closed" ELSE @]
  /\ req' = [req EXCEPT ![r] = IdleReq]
  /\ last' = NoLast
  /\ UNCHANGED <<clients, qrCodes, statuses, authDir, ctoken, nrm, qrFrom>>

\* The manager of src/unnamed/part_000: it registers no 'disconnected'
\* handler.
NextLegacy ==
  \/ ~Storing /\ \E r \in Reqs, t \in SessionTokens : InitializeFirst(r, t)
  \/ \E r \in Reqs : StoreAfterInitialize(r)
  \/ ~Storing /\ \E c \in Handles, q \in QRs : OnQr(c, q)
  \/ ~Storing /\ \E c \in Handles : OnReady(c)
  \/ ~Storing /\ \E c \in Handles : OnAuthFailure(c)
  \/ ~Storing /\ \E r \in Reqs, t \in Tokens : LegacyRemoveStart(r, t)
  \/ ~Storing /\ \E r \in Reqs, lOk \in BOOLEAN, rmOk \in BOOLEAN :
       LegacyRemoveFinish(r, lOk, rmOk)
  \/ ~Storing /\ \E r \in Reqs, dOk \in BOOLEAN : LegacyDestroySettle(r, dOk)

SpecLegacy == Init /\ [][NextLegacy]_vars

(* ------------------------------------------------ sessions of two tokens *)

\* The manager with a session under each of two tokens; one method
\* call is in flight at a time.
IsoReqs == {"r1"}

NextIso ==
  \/ \E t \in Tokens : InitializeClient(t)
  \/ \E c \in Handles : OnQr(c, "qrA")
  \/ \E c \in Handles : OnReady(c)
  \/ \E c \in Handles : OnAuthFailure(c)
  \/ \E c \in Handles : OnDisconnected(c)
  \/ \E r \in IsoReqs, t \in Tokens : SendText(r, t, <<"1">>, "hi")
  \/ \E r \in IsoReqs, ok \in BOOLEAN : SendSettle(r, ok)
  \/ \E r \in IsoReqs, t \in Tokens : RemoveStart(r, t)
  \/ \E r \in IsoReqs, dOk \in BOOLEAN, rmOk \in BOOLEAN : RemoveFinish(r, dOk, rmOk)

SpecIso == Init /\ [][NextIso]_vars

\* GET /sessions: listSessions().map((token) => ({ token, status:
\* getStatus(token) })), in one turn of the event loop.
GetSessions ==
  /\ last' = [Outcome("GET /sessions", "none", "ok") EXCEPT
                !.sessions = {[token |-> t, status |-> getStatus(t)] : t \in listSessions}]
  /\ UNCHANGED <<clients, qrCodes, statuses, authDir, cstate, ctoken, req, nrm, qrFrom>>

\* The two sessions, listed at any moment.
NextList ==
  \/ NextIso
  \/ GetSessions

SpecList == Init /\ [][NextList]_vars

(* --------------------------------------------------------- specification *)

(* ------------------------------------ recipient normalisation, on its own *)

InitNorm ==
  /\ clients = [t \in Tokens |-> NoClient]
  /\ qrCodes = [t \in Tokens |-> NoQR]
  /\ statuses = [t \in Tokens |-> Absent]
  /\ authDir = [t \in Tokens |-> FALSE]
  /\ cstate = [c \in Handles |-> "unborn"]
  /\ ctoken = [c \in Handles |-> "none"]
  /\ req = [r \in Reqs |-> IdleReq]
  /\ last = NoLast
  /\ \E x \in Strings : nrm = [x |-> x, y |-> <<>>, z |-> <<>>, pc |-> "in"]
  /\ qrFrom = [t \in Tokens |-> NoClient]

\* chatId of the drawn string
NormOnce ==
  /\ nrm.pc = "in"
  /\ nrm' = [nrm EXCEPT !.y = ChatId(nrm.x), !.pc = "once"]
  /\ UNCHANGED <<clients, qrCodes, statuses, authDir, cstate, ctoken, req, last, qrFrom>>

\* chatId of that chat id
NormTwice ==
  /\ nrm.pc = "once"
  /\ nrm' = [nrm EXCEPT !.z = ChatId(nrm.y), !.pc = "twice"]
  /\ UNCHANGED <<clients, qrCodes, statuses, authDir, cstate, ctoken, req, last, qrFrom>>

NextNorm == NormOnce \/ NormTwice

SpecNorm == InitNorm /\ [][NextNorm]_vars

Next ==
  \/ \E t \in SessionTokens : InitializeClient(t)
  \/ \E c \in Handles, q \in QRs : OnQr(c, q)
  \/ \E c \in Handles : OnReady(c)
  \/ \E c \in Handles : OnAuthFailure(c)
  \/ \E c \in Handles : OnDisconnected(c)
  \/ \E r \in Reqs, t \in Tokens, n \in Numbers, m \in Messages : SendText(r, t, n, m)
  \/ \E r \in Reqs, t \in Tokens, n \in Numbers : SendImage(r, t, n)
  \/ \E r \in Reqs, ok \in BOOLEAN : FetchSettle(r, ok)
  \/ \E r \in Reqs, ok \in BOOLEAN : SendSettle(r, ok)
  \/ \E r \in Reqs, t \in Tokens : RemoveStart(r, t)
  \/ \E r \in Reqs, dOk \in BOOLEAN, rmOk \in BOOLEAN : RemoveFinish(r, dOk, rmOk)

Spec == Init /\ [][Next]_vars

(* ------------------------------------------------------------ properties *)

\* The lifecycle state of the design, read off the registry: a token without a
\* client entry has no live session; 'initializing' with a stored QR code is
\* the state in which the handshake awaits the code.
SessionState(t) ==
  IF clients[t] = NoClient THEN "Removed"
  ELSE IF getStatus(t) = "initializing"
       THEN IF getQRCode(t) = NoQR THEN "Initializing" ELSE "AwaitingCode"
  ELSE IF getStatus(t) = "authenticated" THEN "Authenticated"
  ELSE IF getStatus(t) = "auth_failure" THEN "AuthFailed"
  ELSE IF getStatus(t) = "logged_out" THEN "LoggedOut"
  ELSE "Unknown"

\* The step is the call of manager method kind for token t (not the
\* continuation of a suspended call).
CallStep(kind, t) ==
  /\ last'.kind = kind
  /\ last'.token = t
  /\ \A r \in Reqs : req[r].pc # "idle" => req'[r] = req[r]

\* The step is the continuation of a suspended call of kind for token t.
ResumeStep(kind, t) ==
  /\ last'.kind = kind
  /\ last'.token = t
  /\ \E r \in Reqs : req[r].pc # "idle" /\ req'[r] # req[r]

\* The step is an event of the client registered under token t.
EventStep(t) ==
  /\ last' = NoLast
  /\ clients[t] # NoClient
  /\ cstate' = cstate
  /\ <<qrCodes[t], statuses[t]>> # <<qrCodes'[t], statuses'[t]>>

\* C1: initializeClient(token) called while the registry holds an entry for
\* the token fails with the already-exists error and leaves the entry (client,
\* status, QR code) as it was, so a token never has two registered sessions.
C1_CreateExistingRejected ==
  [][\A t \in Tokens :
       (clients[t] # NoClient /\ CallStep("initializeClient", t))
         => /\ last'.result = "AlreadyExists"
            /\ last'.method = "none"
            /\ UNCHANGED <<clients, qrCodes, statuses, cstate, ctoken>>]_vars

C1_Witness ==
  /\ last.kind = "initializeClient"
  /\ last.result = "AlreadyExists"
  /\ clients[last.token] # NoClient
  /\ statuses[last.token] = "initializing"

\* C2: sendText and sendImage called for a known token whose status is not
\* 'authenticated' fail with NotAuthenticated, call no underlying client and
\* leave no suspended call behind that could call one later.
C2_SendRequiresAuthenticated ==
  [][\A t \in Tokens : \A k \in {"sendText", "sendImage"} :
       (clients[t] # NoClient /\ getStatus(t) # "authenticated" /\ CallStep(k, t))
         => /\ last'.result = "NotAuthenticated"
            /\ last'.method = "none"
            /\ UNCHANGED <<req, clients, qrCodes, statuses, cstate>>]_vars

C2_Witness ==
  /\ last.kind = "sendImage"
  /\ last.result = "NotAuthenticated"
  /\ clients[last.token] # NoClient
  /\ statuses[last.token] = "logged_out"

\* C3: a registered session whose status is authenticated, auth_failure or
\* logged_out has no stored QR code.
C3_NoArtifactOutsideHandshake ==
  \A t \in Tokens :
    (clients[t] # NoClient /\ getStatus(t) \in {"authenticated", "auth_failure", "logged_out"})
      => getQRCode(t) = NoQR

\* The transitions of the design's state machine.
AllowedTransition(a, b) ==
  \/ b = "Removed"
  \/ <<a, b>> \in {<<"Initializing", "AwaitingCode">>,
                   <<"Initializing", "Authenticated">>,
                   <<"AwaitingCode", "Authenticated">>,
                   <<"AwaitingCode", "AuthFailed">>,
                   <<"Initializing", "AuthFailed">>,
                   <<"Authenticated", "LoggedOut">>}

\* C4: every change of the lifecycle state of a registered session is one of
\* the listed transitions.
C4_OnlyListedTransitions ==
  [][\A t \in Tokens :
       (clients[t] # NoClient /\ SessionState(t)' # SessionState(t))
         => AllowedTransition(SessionState(t), SessionState(t)')]_vars

\* C5: after a successful create the session is Initializing; when its client
\* then signals a QR code the code is stored and the session is AwaitingCode;
\* when its client then signals ready the code is gone and the session is
\* Authenticated.
C5_CreateArtifactAuthenticated ==
  [][\A t \in Tokens :
       /\ (CallStep("initializeClient", t) /\ last'.result = "ok")
            => SessionState(t)' = "Initializing"
       /\ (EventStep(t) /\ SessionState(t) = "Initializing" /\ qrCodes'[t] # qrCodes[t])
            => SessionState(t)' = "AwaitingCode"
       /\ (EventStep(t) /\ SessionState(t) = "AwaitingCode"
              /\ statuses'[t] = "authenticated")
            => (getQRCode(t)' = NoQR /\ SessionState(t)' = "Authenticated")]_vars

C7_NoCredentialDirLeft ==
  [][\A t \in Tokens :
       /\ ResumeStep("removeSession", t) => ~authDir'[t]
       /\ (CallStep("initializeClient", t) /\ last'.result = "ok") => ~authDir[t]]_vars

\* C8: removeSession, sendText and sendImage called with a token that has no
\* client entry fail with NotFound, change none of the maps, call no
\* underlying client and leave no suspended call.
C8_UnknownTokenNotFound ==
  [][(/\ last'.kind \in {"removeSession", "sendText", "sendImage"}
      /\ last'.token \in Tokens
      /\ clients[last'.token] = NoClient
      /\ CallStep(last'.kind, last'.token))
         => /\ last'.result = "NotFound"
            /\ last'.method = "none"
            /\ UNCHANGED <<req, clients, qrCodes, statuses, authDir, cstate>>]_vars

\* sendText for a token unknown to the registry while another session exists
C8_Witness ==
  /\ last.kind = "sendText"
  /\ last.result = "NotFound"
  /\ clients[last.token] = NoClient
  /\ \E u \in Tokens : clients[u] # NoClient /\ statuses[u] = "authenticated"

\* C9: normalising a recipient twice gives what normalising it once gives.
C9_NormalizeIdempotent ==
  nrm.pc = "twice" => nrm.z = nrm.y

\* a recipient to which the suffix was appended, normalised again
C9_Witness ==
  /\ nrm.pc = "twice"
  /\ nrm.y # nrm.x

\* C10: sendText for an authenticated session calls sendMessage of the
\* registered client with the recipient plus '@c.us' when the recipient does
\* not have the suffix in it, with the recipient as it is when it ends with
\* the suffix, and with the message as it was given.
C10_SendTextDelegates ==
  [][\A t \in Tokens :
       (clients[t] # NoClient /\ getStatus(t) = "authenticated" /\ CallStep("sendText", t))
         => /\ last'.method = "sendMessage"
            /\ last'.client = clients[t]
            /\ ~Includes(last'.number, Suffix) => last'.chatId = last'.number \o Suffix
            /\ EndsWith(last'.number, Suffix) => last'.chatId = last'.number
            /\ last'.content = last'.message]_vars

\* a recipient already ending with the suffix has been passed on
C10_Witness ==
  /\ last.kind = "sendText"
  /\ last.method = "sendMessage"
  /\ EndsWith(last.number, Suffix)
  /\ last.chatId = last.number

\* The step is the response of GET /qr request r.
QrResponse(r) ==
  /\ req[r].kind = "GET /qr"
  /\ req'[r].pc = "idle"
  /\ last'.kind = "GET /qr"

\* C11: a GET /qr that found the session LoggedOut or AuthFailed, removed it
\* and created it again never responds with a QR code of the session it
\* removed: the code it returns was stored by another client than the one it
\* destroyed.
C11_ReinitReturnsFreshArtifact ==
  [][\A r \in Reqs :
       QrResponse(r) /\ req[r].client # NoClient /\ last'.result = "qr"
         => qrFrom[req[r].token] # req[r].client]_vars

\* C12: every wait for a QR code ends.  A waiting GET /qr has made fewer than
\* ten polls and its next poll can always run; a poll that finds a QR code
\* stored answers with it, the tenth poll that finds none answers with the
\* timeout, and any other poll only counts; nothing else touches the wait,
\* whatever events and removals happen meanwhile.
C12_QrWaitTerminates ==
  /\ [](\A r \in Reqs : req[r].pc = "poll" =>
          /\ req[r].attempts < 10
          /\ Macrotask => ENABLED GetQrPoll(r))
  /\ [][\A r \in Reqs : req[r].pc = "poll" /\ req'[r] # req[r] =>
          LET t == req[r].token IN
          IF qrCodes[t] # NoQR
          THEN /\ req'[r].pc = "idle"
               /\ last'.kind = "GET /qr" /\ last'.token = t
               /\ last'.result = "qr" /\ last'.qr = qrCodes[t]
          ELSE IF req[r].attempts = 9
          THEN /\ req'[r].pc = "idle"
               /\ last'.kind = "GET /qr" /\ last'.token = t
               /\ last'.result = "ArtifactTimeout"
          ELSE /\ req'[r].pc = "poll"
               /\ req'[r].attempts = req[r].attempts + 1]_vars

\* A wait has timed out on a token whose session was removed meanwhile.
C12_Witness ==
  /\ last.kind = "GET /qr"
  /\ last.result = "ArtifactTimeout"
  /\ clients[last.token] = NoClient

\* C13: every wait for a pairing code ends, with the code or with the
\* timeout: a POST /pair that waits is answered eventually.
C13_PairWaitTerminates ==
  \A r \in Reqs : (req[r].pc = "await_code") ~> (req[r].pc = "idle")

\* C14: an artifact that arrives releases every request waiting on the token
\* with it, also when the session becomes Authenticated before the waiters
\* poll again: when the session enters Authenticated and its stored QR code
\* is cleared, no GET /qr is still waiting on the token.
C14_WaitersReleasedWithArtifact ==
  [][\A t \in Tokens :
       qrCodes[t] # NoQR /\ qrCodes'[t] = NoQR /\ statuses'[t] = "authenticated"
         => \A r \in Reqs : ~(req[r].pc = "poll" /\ req[r].token = t)]_vars

\* C15: of the create requests for one token that are in flight together,
\* exactly one constructs and starts a client and stores the session, and
\* every other fails with AlreadyExists without constructing one: a POST
\* /sessions that resumes from its removeSession either stores the first
\* client constructed since it began, or fails with AlreadyExists and leaves
\* clients and registry as they are.
C15_ExactlyOneCreates ==
  [][\A r \in Reqs :
       req[r].kind = "POST /sessions" /\ req[r].pc = "removed" /\ req'[r].pc = "idle"
         => \/ /\ last'.result = "ok"
               /\ last'.client = req[r].client + 1
               /\ clients'[req[r].token] = last'.client
            \/ /\ last'.result = "AlreadyExists"
               /\ cstate' = cstate
               /\ clients' = clients]_vars

\* C16: a failure of the client's shutdown or of the deletion of the
\* credential directory is not propagated by removeSession: every
\* removeSession that found the client completes successfully, with the token
\* in none of the three maps.
C16_TeardownFailureNotPropagated ==
  [][\A r \in Reqs :
       req[r].kind = "removeSession" /\ req'[r].kind # "removeSession"
         => /\ last'.result = "ok"
            /\ clients'[req[r].token] = NoClient
            /\ statuses'[req[r].token] = Absent
            /\ qrCodes'[req[r].token] = NoQR]_vars

\* What the registry holds for a token.
TokenEntry(t) == <<clients[t], statuses[t], qrCodes[t]>>

\* The step is an event of client c.
EventOf(c) ==
  \/ \E q \in QRs : OnQr(c, q)
  \/ OnReady(c)
  \/ OnAuthFailure(c)
  \/ OnDisconnected(c)

\* C17: isolation.  A step of a manager method called for token A (a send
\* and its failure, a removal and its failed teardown) and an event of a
\* client created for token A leave the client, status and QR code of every
\* other token as they are.
C17_Isolation ==
  [][\A b \in Tokens :
       TokenEntry(b)' # TokenEntry(b) =>
         /\ ~(last'.kind # "none" /\ last'.token # b)
         /\ \A c \in Handles :
              ~(cstate[c] = "live" /\ ctoken[c] # b /\ EventOf(c))]_vars

\* A session of T1 was removed with a destroy() that failed, its client is
\* still alive, and T2 has an authenticated session.
C17_Witness ==
  /\ last.kind = "removeSession" /\ last.token = "T1" /\ last.result = "ok"
  /\ \E c \in Handles : cstate[c] = "live" /\ ctoken[c] = "T1" /\ clients["T1"] # c
  /\ statuses["T2"] = "authenticated"

\* C18: GET /qr for a token whose session is Authenticated answers that it is
\* already authenticated, with no QR code, and neither removes nor re-creates
\* the session: no client is called, constructed or closed, the registry and
\* the credential directories stay as they are and nothing is left waiting.
C18_QrOfAuthenticated ==
  [][\A t \in Tokens :
       CallStep("GET /qr", t) /\ SessionState(t) = "Authenticated"
         => /\ last'.result = "AlreadyAuthenticated"
            /\ last'.qr = NoQR
            /\ last'.method = "none"
            /\ registry' = registry
            /\ cstate' = cstate
            /\ authDir' = authDir
            /\ req' = req]_vars

\* GET /qr answered already-authenticated although a QR code is stored for
\* the token (one emitted after 'ready').
C18_Witness ==
  /\ last.kind = "GET /qr"
  /\ last.result = "AlreadyAuthenticated"
  /\ statuses[last.token] = "authenticated"
  /\ qrCodes[last.token] # NoQR

\* C19: initializeClient stores the session as Initializing before it starts
\* client.initialize(): in the state in which a client has just been started,
\* the client is the one stored under its token, with status 'initializing'.
C19_StoredBeforeHandshake ==
  [][\A c \in Handles :
       cstate[c] = "unborn" /\ cstate'[c] = "live"
         => /\ clients'[ctoken'[c]] = c
            /\ statuses'[ctoken'[c]] = "initializing"]_vars

\* C20: state and handle validity agree: the client stored under a token is
\* neither destroyed nor being destroyed, so no removeSession is awaiting the
\* destroy() of a client that is still stored.
C20_StateAndHandleAgree ==
  \A t \in Tokens :
    clients[t] # NoClient =>
      /\ cstate[clients[t]] = "live"
      /\ ~\E r \in Reqs : req[r].pc = "await_destroy" /\ req[r].client = clients[t]

\* C21: removeSession deletes the entries of its token only after the
\* destroy() it called has completed or failed: a step that deletes the
\* client entry of a token is one in which a removeSession of the token
\* resumes from its awaited destroy(), and it leaves no destroy() that it has
\* just started running.
C21_DeleteAfterRelease ==
  [][\A t \in Tokens :
       clients[t] # NoClient /\ clients'[t] = NoClient
         => /\ \E r \in Reqs : /\ req[r].token = t
                                /\ req[r].pc = "await_destroy"
                                /\ req'[r].pc # "await_destroy"
            /\ ~\E r \in Reqs : /\ req'[r].token = t
                                 /\ req[r].pc # "destroying"
                                 /\ req'[r].pc = "destroying"]_vars

\* What the registry holds of a session's state: status and QR code.
StateEntry(t) == [status |-> statuses[t], qr |-> qrCodes[t]]

\* The entry after the three events qr(q), ready, disconnected, each applied
\* to what the one before left.
AfterArtifactReadyDisconnect(e, q) ==
  LET e1 == [e EXCEPT !.qr = q]
      e2 == [e1 EXCEPT !.status = "authenticated", !.qr = NoQR]
  IN  [e2 EXCEPT !.status = "logged_out"]

\* C22: the events of a token's client are applied in the order of their
\* emission.  Each event of the stored client is applied, in the step in which
\* it is emitted, to the entry as the events before it left it: qr stores
\* its code, ready sets 'authenticated' and clears the code, disconnected
\* sets 'logged_out'; it touches no request in flight, and no step of a send
\* changes the entry between two events.  So after qr, ready, disconnected
\* the session is logged out without a QR code.
C22_EventsAppliedInOrder ==
  /\ [][\A c \in Handles :
          last' = NoLast /\ cstate[c] = "live" /\ clients[ctoken[c]] = c =>
            LET t == ctoken[c]
                e == StateEntry(t) IN
            /\ \A q \in QRs : OnQr(c, q) => StateEntry(t)' = [e EXCEPT !.qr = q]
            /\ OnReady(c) =>
                 StateEntry(t)' = [status |-> "authenticated", qr |-> NoQR]
            /\ OnDisconnected(c) =>
                 StateEntry(t)' = [e EXCEPT !.status = "logged_out"]
            /\ EventOf(c) => req' = req /\ clients' = clients]_vars
  /\ [][\A t \in Tokens :
          last'.kind \in {"sendText", "sendImage"} => StateEntry(t)' = StateEntry(t)]_vars
  /\ [](\A t \in Tokens, q \in QRs :
          AfterArtifactReadyDisconnect(StateEntry(t), q)
            = [status |-> "logged_out", qr |-> NoQR])

\* The stored client has emitted a QR code, ready and disconnected while a
\* send was in flight: the session is logged out with no QR code.
C22_Witness ==
  /\ \E t \in Tokens :
       /\ clients[t] # NoClient
       /\ StateEntry(t) = [status |-> "logged_out", qr |-> NoQR]
       /\ \E r \in Reqs : req[r].pc = "await_send" /\ req[r].token = t
  /\ last = NoLast


\* C23: a wait for a QR code that ends with the timeout leaves the session as
\* it is: the answer removes no entry and restarts no client.  A QR code the
\* session's client produces afterwards is stored, and a following GET /qr on
\* the session, still 'initializing', is answered at once with the stored
\* code, and can always be served.
C23_TimeoutKeepsSession ==
  /\ [][last'.kind = "GET /qr" /\ last'.result = "ArtifactTimeout" =>
          /\ clients' = clients /\ statuses' = statuses /\ qrCodes' = qrCodes
          /\ cstate' = cstate /\ ctoken' = ctoken /\ authDir' = authDir]_vars
  /\ [][\A c \in Handles, q \in QRs :
          OnQr(c, q) /\ clients[ctoken[c]] = c =>
            /\ qrCodes'[ctoken[c]] = q
            /\ clients' = clients /\ statuses' = statuses]_vars
  /\ [][\A t \in Tokens :
          /\ last'.kind = "GET /qr" /\ last'.token = t /\ req' = req
          /\ clients[t] # NoClient /\ statuses[t] = "initializing"
          /\ qrCodes[t] # NoQR
          => last'.result = "qr" /\ last'.qr = qrCodes[t] /\ clients' = clients]_vars
  /\ [](\A t \in SessionTokens :
          /\ Macrotask
          /\ clients[t] # NoClient /\ statuses[t] = "initializing"
          /\ qrCodes[t] # NoQR
          => ENABLED (\E r \in Reqs : /\ GetQrStart(r, t)
                                      /\ last'.result = "qr"
                                      /\ last'.qr = qrCodes[t]))

\* A wait has just timed out on a session that is still registered with its
\* running client, 'initializing' and without a QR code.
C23_Witness ==
  /\ last.kind = "GET /qr"
  /\ last.result = "ArtifactTimeout"
  /\ clients[last.token] # NoClient
  /\ cstate[clients[last.token]] = "live"
  /\ statuses[last.token] = "initializing"
  /\ qrCodes[last.token] = NoQR


\* C24: a POST /sessions for a token that has a session reuses the session
\* when it is 'initializing' (with or without a QR code stored) or
\* 'authenticated': handle, status, QR code and clients stay as they are, no
\* client is constructed and nothing is torn down.  It begins the removal
\* that precedes the new client only when the session is 'logged_out' or
\* 'auth_failure'.
C24_CreateReusesLiveSession ==
  /\ [][\A t \in Tokens :
          /\ last'.kind = "POST /sessions" /\ last'.token = t
          /\ \A r \in Reqs : req[r].kind = "POST /sessions" => req'[r] = req[r]
          /\ clients[t] # NoClient
          => IF statuses[t] \in {"initializing", "authenticated"}
             THEN /\ last'.result = IF statuses[t] = "initializing"
                                    THEN "AlreadyInitializing"
                                    ELSE "AlreadyAuthenticated"
                  /\ clients' = clients /\ statuses' = statuses
                  /\ qrCodes' = qrCodes /\ authDir' = authDir
                  /\ cstate' = cstate /\ ctoken' = ctoken
                  /\ req' = req
             ELSE /\ statuses[t] \in {"logged_out", "auth_failure"}
                  /\ \E r \in Reqs : /\ req[r].pc = "idle"
                                     /\ req'[r].kind = "POST /sessions"
                                     /\ req'[r].pc = "await_destroy"
                                     /\ req'[r].client = clients[t]
                  /\ cstate' = cstate]_vars
  /\ [][\A r \in Reqs :
          req[r].pc = "idle" /\ req'[r].kind = "POST /sessions"
            => statuses[req'[r].token] \in {"logged_out", "auth_failure"}]_vars

\* A POST /sessions has just been answered 'already initializing' by a
\* session whose running client has produced a QR code.
C24_Witness ==
  /\ last.kind = "POST /sessions"
  /\ last.result = "AlreadyInitializing"
  /\ clients[last.token] # NoClient
  /\ cstate[clients[last.token]] = "live"
  /\ statuses[last.token] = "initializing"
  /\ qrCodes[last.token] # NoQR


\* Suspended removeSession, or endpoint in its removeSession, of token t
\* completes in the step.
RemovalStep(t) ==
  \E r \in Reqs : /\ req[r].pc = "await_destroy"
                  /\ req[r].token = t
                  /\ req'[r].pc # "await_destroy"

\* C25: the auth_failure event of a session's client deletes the stored QR
\* code and leaves the session registered (listed, with status
\* 'auth_failure'); a send to an AuthFailed session is rejected; and an
\* AuthFailed session stays unable to send for as long as its entry is
\* neither removed nor replaced.
C25_AuthFailedUntilRemoved ==
  /\ [][\A c \in Handles :
          OnAuthFailure(c) /\ clients[ctoken[c]] = c =>
            /\ qrCodes'[ctoken[c]] = NoQR
            /\ clients'[ctoken[c]] = c
            /\ ctoken[c] \in listSessions'
            /\ getStatus(ctoken[c])' = "auth_failure"]_vars
  /\ [][\A t \in Tokens : \A k \in {"sendText", "sendImage"} :
          SessionState(t) = "AuthFailed" /\ CallStep(k, t)
            => last'.result = "NotAuthenticated" /\ req' = req]_vars
  /\ [][\A t \in Tokens :
          SessionState(t) = "AuthFailed" /\ clients'[t] = clients[t]
            => SessionState(t)' # "Authenticated"]_vars

\* C26: a LoggedOut session stays registered and unable to send until it is
\* removed: its entry disappears only when a removeSession of the token
\* completes, and while the entry is there no step makes it Authenticated.
C26_LoggedOutUntilRemoved ==
  [][\A t \in Tokens :
       SessionState(t) = "LoggedOut" =>
         /\ clients'[t] # clients[t] => RemovalStep(t)
         /\ clients'[t] = clients[t] => SessionState(t)' # "Authenticated"]_vars


\* C27: the answer of GET /sessions is a snapshot of the registry: it has
\* exactly the tokens that have a client entry, each once, each with the
\* status stored for it, which is one of the four lifecycle statuses and
\* never 'unknown'; and every registered token has such a status at any
\* moment, whatever creations, events and removals are interleaved.
C27_ListingDefinedStatus ==
  /\ \A t \in listSessions : getStatus(t) \in Statuses
  /\ last.kind = "GET /sessions" =>
       /\ {e.token : e \in last.sessions} = listSessions
       /\ \A e \in last.sessions :
            /\ e.status \in Statuses
            /\ e.status = statuses[e.token]
            /\ \A f \in last.sessions : f.token = e.token => f = e

\* Both sessions have just been listed, with different statuses, while the
\* removal of one of them awaits its client's destroy().
C27_Witness ==
  /\ last.kind = "GET /sessions"
  /\ Cardinality(last.sessions) = 2
  /\ \E e, f \in last.sessions : e.status # f.status
  /\ \E r \in Reqs : req[r].pc = "await_destroy"


\* C28: a send reports success only in the step in which the sendMessage it
\* awaits on the underlying client settles, never at the call; when that
\* sendMessage fails the send reports the delivery failure; and the
\* settlement, acknowledged or failed, leaves clients, statuses, QR codes and
\* the clients themselves as they were.
C28_SuccessAfterAcknowledge ==
  /\ [][last'.kind \in {"sendText", "sendImage"} /\ last'.result = "ok" =>
          \E r \in Reqs : /\ req[r].pc = "await_send"
                          /\ req[r].kind = last'.kind
                          /\ req[r].token = last'.token
                          /\ req'[r].pc = "idle"]_vars
  /\ [][\A r \in Reqs :
          /\ SendSettle(r, FALSE) =>
               /\ last'.kind = req[r].kind /\ last'.token = req[r].token
               /\ last'.result = "DeliveryFailed"
          /\ SendSettle(r, TRUE) => last'.result = "ok"
          /\ req[r].pc = "await_send" /\ req'[r] # req[r] =>
               /\ req'[r].pc = "idle"
               /\ clients' = clients /\ statuses' = statuses
               /\ qrCodes' = qrCodes /\ cstate' = cstate]_vars

\* A sendText has just failed in the underlying client: its session is still
\* registered and authenticated, with its client running.
C28_Witness ==
  /\ last.kind = "sendText"
  /\ last.result = "DeliveryFailed"
  /\ clients[last.token] # NoClient
  /\ cstate[clients[last.token]] = "live"
  /\ statuses[last.token] = "authenticated"


\* C29: the three maps agree on their keys in every state: a token has a
\* status exactly when it has a client, and a token with a stored QR code has
\* a client.
C29_MapsAgreeOnKeys ==
  \A t \in Tokens :
    /\ statuses[t] # Absent <=> clients[t] # NoClient
    /\ qrCodes[t] # NoQR => clients[t] # NoClient

\* C30: an event of a client that is not the one registered under its token,
\* because the token's session was removed and created again, leaves the
\* status and the QR code of the token's session as they are.
C30_LateEventLeavesNewSession ==
  [][\A c \in Handles :
       /\ EventOf(c)
       /\ clients[ctoken[c]] # NoClient
       /\ clients[ctoken[c]] # c
       => /\ statuses'[ctoken[c]] = statuses[ctoken[c]]
          /\ qrCodes'[ctoken[c]] = qrCodes[ctoken[c]]]_vars


\* C31: no running client is orphaned by a removal that began on an older
\* client: a removeSession that resumes from the destroy() of a client that
\* is no longer the one registered under its token leaves the client entry,
\* the status, the QR code and the credential directory of the token as they
\* are, so the newer client stays registered.
C31_StaleRemovalKeepsNewSession ==
  [][\A r \in Reqs :
       /\ req[r].pc = "await_destroy"
       /\ req'[r].pc # "await_destroy"
       /\ clients[req[r].token] # NoClient
       /\ clients[req[r].token] # req[r].client
       => /\ clients'[req[r].token] = clients[req[r].token]
          /\ statuses'[req[r].token] = statuses[req[r].token]
          /\ qrCodes'[req[r].token] = qrCodes[req[r].token]
          /\ authDir'[req[r].token] = authDir[req[r].token]]_vars


\* C32: when sendText or sendImage calls sendMessage on a client, that client
\* is the one registered under the token, the status of the token is
\* 'authenticated' and no removeSession is awaiting the destroy() of the
\* client.
C32_SendOnRegisteredClient ==
  [][last'.method = "sendMessage" =>
       /\ clients[last'.token] = last'.client
       /\ statuses[last'.token] = "authenticated"
       /\ ~\E r \in Reqs : /\ req[r].pc = "await_destroy"
                           /\ req[r].client = last'.client]_vars


\* Number of places at which sub occurs in s.
Occurrences(s, sub) ==
  Cardinality({i \in 0..(Len(s) - Len(sub)) : SubSeq(s, i + 1, i + Len(sub)) = sub})

\* C33: the chat id computed from any recipient ends with '@c.us' and has
\* '@c.us' in it exactly once.
C33_SuffixExactlyOnceAtEnd ==
  nrm.pc \in {"once", "twice"} =>
    /\ EndsWith(nrm.y, Suffix)
    /\ Occurrences(nrm.y, Suffix) = 1


\* C34: of two GET /qr in flight together that both removed the same client
\* of one token, neither ends with the re-initialization failure, and the
\* one that resumes after the other has already constructed the new client
\* constructs none.
C34_ConcurrentReinitOneClient ==
  [][\A r, o \in Reqs :
       /\ r # o
       /\ req[r].kind = "GET /qr" /\ req[o].kind = "GET /qr"
       /\ req[r].token = req[o].token
       /\ req[r].client # NoClient /\ req[o].client = req[r].client
       /\ req[r].pc = "removed"
       /\ req'[r] # req[r]
       => /\ last'.result # "ReinitFailed"
          /\ req[o].pc = "poll" => cstate' = cstate]_vars

====
